---- MODULE Spec2Model ----
(***************************************************************************)
(* Flow-Logs-Processor/solution.py: FlowLogsProcessor.generate_output.     *)
(*                                                                         *)
(* A Python str is a sequence of one-character strings, so that split(),   *)
(* strip() and lower() are computed character by character.  A Python dict *)
(* is a sequence of <<key, value>> pairs in insertion order.               *)
(***************************************************************************)
EXTENDS Integers, Sequences, FiniteSets, TLC

VARIABLES
    pc,                  \* position of the run inside generate_output
    called,              \* the methods generate_output has entered so far
    lookupFile,          \* what open(lookup_table_path) finds
    row_number,          \* rows of the lookup table consumed by the reader
    lookup_data,         \* read_lookup_table: dict (port, protocol) -> tag
    flowFile,            \* what open(flow_logs_path) finds
    line_number,         \* lines of the flow log consumed
    required_flow_data,  \* process_flow_logs: list of (port, protocol) pairs
    matched,             \* records of flow_data consumed by match_flowdata_tags
    tag_count,           \* match_flowdata_tags: dict tag -> count
    portprotocol_count,  \* match_flowdata_tags: dict (port, protocol) -> count
    output,              \* the file at output_path
    outputPath,          \* what writing to output_path met
    exitCode,            \* the status the process ends with
    token,               \* protocol normalisation alone: a protocol token
    variant,             \*   a token that differs from it in letter case only
    name_once,           \*   the token normalised
    name_twice,          \*   the normalised token normalised again
    name_variant         \*   the variant normalised

pipeVars == <<pc, called, lookupFile, row_number, lookup_data, flowFile,
              line_number, required_flow_data, matched, tag_count,
              portprotocol_count, output, outputPath, exitCode>>
normVars == <<token, variant, name_once, name_twice, name_variant>>
vars == <<pipeVars, normVars>>

(***************************************************************************)
(* Bounds of the model.                                                    *)
(***************************************************************************)
MaxRows == 2       \* lookup rows after the header row
MaxLines == 3      \* lines of the flow log
MaxTokenLen == 3   \* characters of a protocol token (normalisation alone)

(***************************************************************************)
(* Python built-ins.                                                       *)
(***************************************************************************)
UpperChars == <<"A","B","C","D","E","F","G","H","I","J","K","L","M",
                "N","O","P","Q","R","S","T","U","V","W","X","Y","Z">>
LowerChars == <<"a","b","c","d","e","f","g","h","i","j","k","l","m",
                "n","o","p","q","r","s","t","u","v","w","x","y","z">>

LowerChar(c) ==
    IF \E i \in 1..Len(UpperChars) : UpperChars[i] = c
    THEN LowerChars[CHOOSE i \in 1..Len(UpperChars) : UpperChars[i] = c]
    ELSE c

\* str.lower()
lower(s) == [i \in 1..Len(s) |-> LowerChar(s[i])]

\* str.isspace() of one character
IsSpace(c) == c \in {" ", "\t", "\n", "\r", "\f"}

RECURSIVE lstrip(_)
lstrip(s) == IF s = <<>> \/ ~IsSpace(Head(s)) THEN s ELSE lstrip(Tail(s))

RECURSIVE rstrip(_)
rstrip(s) ==
    IF s = <<>> \/ ~IsSpace(s[Len(s)]) THEN s ELSE rstrip(SubSeq(s, 1, Len(s) - 1))

\* str.strip()
strip(s) == rstrip(lstrip(s))

RECURSIVE SplitFrom(_, _, _)
SplitFrom(s, word, out) ==
    IF s = <<>>
    THEN IF word = <<>> THEN out ELSE Append(out, word)
    ELSE IF IsSpace(Head(s))
         THEN SplitFrom(Tail(s), <<>>, IF word = <<>> THEN out ELSE Append(out, word))
         ELSE SplitFrom(Tail(s), Append(word, Head(s)), out)

\* str.split() with no separator: the maximal runs of non-whitespace
split(s) == SplitFrom(s, <<>>, <<>>)

\* key in d
DictHas(d, k) == \E i \in 1..Len(d) : d[i][1] = k

\* d.get(k, default)
DictGet(d, k, default) ==
    IF DictHas(d, k) THEN d[CHOOSE i \in 1..Len(d) : d[i][1] = k][2] ELSE default

\* d[k] = v moved to the end of the dict (not what a Python dict does)
DictSetMoveToEnd(d, k, v) ==
    Append(SelectSeq(d, LAMBDA e : e[1] # k), <<k, v>>)

\* d[k] = v kept only when k is new (not what a Python dict does)
DictSetFirstWins(d, k, v) ==
    IF DictHas(d, k) THEN d ELSE Append(d, <<k, v>>)

\* d[k] = v: a present key keeps its place, a new key goes last
DictSet(d, k, v) ==
    IF DictHas(d, k)
    THEN [i \in 1..Len(d) |-> IF d[i][1] = k THEN <<k, v>> ELSE d[i]]
    ELSE Append(d, <<k, v>>)

\* str(n) of a non-negative int
Digits == <<"0","1","2","3","4","5","6","7","8","9">>

RECURSIVE str(_)
str(n) == IF n < 10 THEN <<Digits[n + 1]>> ELSE str(n \div 10) \o <<Digits[(n % 10) + 1]>>

SeqsUpTo(S, n) == UNION {[1..k -> S] : k \in 0..n}

(***************************************************************************)
(* Program constants.                                                      *)
(***************************************************************************)
S1 == <<"1">>
S6 == <<"6">>
S17 == <<"1","7">>
Tcp == <<"t","c","p">>
Udp == <<"u","d","p">>
Icmp == <<"i","c","m","p">>

PROTOCOL_MAP == << <<S6, Tcp>>, <<S17, Udp>>, <<S1, Icmp>> >>

Untagged == <<"U","n","t","a","g","g","e","d">>

MinFields == 8     \* if len(fields) < 8
LookupFields == 3  \* if len(row) != 3

TagCountsTitle == <<"T","a","g"," ","C","o","u","n","t","s",":">>
TagColumn == <<"T","a","g">>
CountColumn == <<"C","o","u","n","t">>
PortProtocolTitle ==
    <<"P","o","r","t","/","P","r","o","t","o","c","o","l"," ",
      "C","o","m","b","i","n","a","t","i","o","n"," ","C","o","u","n","t","s",":">>
PortColumn == <<"P","o","r","t">>
ProtocolColumn == <<"P","r","o","t","o","c","o","l">>

(***************************************************************************)
(* The inputs: what the two paths hold.                                    *)
(***************************************************************************)
P25 == <<"2","5">>
TCP == <<"T","C","P">>
Email == <<"e","m","a","i","l">>
Web == <<"w","e","b">>
Num == <<"n","u","m">>
Hdr == <<"h","d","r">>

\* rows as csv.reader yields them
HeaderRows == { <<P25, Udp, Hdr>> }        \* 25,udp,hdr: a first row that reads as data
DataRows == { <<P25, Tcp, Email>>,        \* 25,tcp,email
              <<P25, TCP, Web>>,          \* 25,TCP,web: the same key after lower()
              <<P25, S6, Num>>,           \* 25,6,num: a numeric protocol
              <<P25, Udp>> }              \* 25,udp: two fields

\* status: what open() does; rows: what the reader yields; error: what it
\* raises once the rows are consumed ("csv": csv.Error, "other": any other)
LookupFilesOf(rowSet) ==
    { [status |-> s, rows |-> <<>>, error |-> "none"] : s \in {"missing", "denied", "other"} }
    \cup { [status |-> "ok", rows |-> <<>>, error |-> e] : e \in {"none", "csv", "other"} }
    \cup { [status |-> "ok", rows |-> <<h>> \o body, error |-> e] :
             h \in HeaderRows, body \in SeqsUpTo(rowSet, MaxRows),
             e \in {"none", "csv", "other"} }

LookupFiles == LookupFilesOf(DataRows)

\* lines as iterating the file yields them
FlowLines == {
    <<"a"," ","a"," ","a"," ","a"," ","a"," ","a"," ","2","5"," ","6","\n">>,
    <<" ","a","\t","a"," "," ","a"," ","a"," ","a"," ","a"," ","2","5","\t","1","7"," ","z"," ","\n">>,
    <<"a"," ","a"," ","a"," ","a"," ","a","\n">>,
    <<"a"," ","a"," ","a"," ","a"," ","a"," ","a"," ","2","5","\n">> }

FlowFilesOf(lineSet) ==
    { [status |-> s, lines |-> <<>>, error |-> "none"] : s \in {"missing", "denied", "other"} }
    \cup { [status |-> "ok", lines |-> ls, error |-> e] :
             ls \in SeqsUpTo(lineSet, MaxLines), e \in {"none", "other"} }

FlowFiles == FlowFilesOf(FlowLines)

Unopened == [status |-> "unopened"]

(***************************************************************************)
(* generate_output                                                         *)
(***************************************************************************)
Init ==
    /\ pc = "read_lookup_table"
    /\ called = {}
    /\ lookupFile = Unopened
    /\ row_number = 0
    /\ lookup_data = <<>>
    /\ flowFile = Unopened
    /\ line_number = 0
    /\ required_flow_data = <<>>
    /\ matched = 0
    /\ tag_count = <<>>
    /\ portprotocol_count = <<>>
    /\ output = [written |-> FALSE, complete |-> FALSE, rows |-> <<>>]
    /\ outputPath = "untried"
    /\ exitCode = -1                    \* the process has not ended
    /\ token = <<>>
    /\ variant = <<>>
    /\ name_once = <<>>
    /\ name_twice = <<>>
    /\ name_variant = <<>>

\* sys.exit(1)
sys_exit ==
    /\ pc' = "exited"
    /\ exitCode' = 1

\* a handler that reports the error and goes on with an empty result
ReportAndGoOn(next) ==
    /\ pc' = next
    /\ UNCHANGED exitCode

\* the except clauses of read_lookup_table
LookupFatal(next) == sys_exit

\* the except clauses of process_flow_logs
FlowFatal(next) == sys_exit

\* with open(self.lookup_table_path, 'r'), the path holding one of files
OpenLookupTable(files) ==
    /\ pc = "read_lookup_table"
    /\ called' = called \cup {"read_lookup_table"}
    /\ \E f \in files :
         /\ lookupFile' = f
         /\ IF f.status = "ok"
            THEN pc' = "lookup_header" /\ UNCHANGED exitCode
            ELSE LookupFatal("process_flow_logs")
    /\ UNCHANGED <<row_number, lookup_data, flowFile, line_number, required_flow_data,
                   matched, tag_count, portprotocol_count, output, outputPath, normVars>>

read_lookup_table_open == OpenLookupTable(LookupFiles)

\* the first row read like any other row
HeaderRead(data, row) ==
    IF Len(row) = LookupFields THEN DictSet(data, <<row[1], lower(row[2])>>, row[3]) ELSE data

\* next(reader)  # Skip the header row
HeaderSkipped(data, row) == data

\* next(reader): an empty file raises StopIteration, caught by except Exception
read_lookup_table_header ==
    /\ pc = "lookup_header"
    /\ IF row_number < Len(lookupFile.rows)
       THEN /\ row_number' = row_number + 1
            /\ lookup_data' = HeaderSkipped(lookup_data, lookupFile.rows[row_number + 1])
            /\ pc' = "lookup_rows"
            /\ UNCHANGED exitCode
       ELSE /\ LookupFatal("process_flow_logs")
            /\ UNCHANGED <<row_number, lookup_data>>
    /\ UNCHANGED <<called, lookupFile, flowFile, line_number,
                   required_flow_data, matched, tag_count, portprotocol_count,
                   output, outputPath, normVars>>

\* if len(row) > 3: ... continue
RowSkippedMoreThan(row) == Len(row) > LookupFields

\* if len(row) != 3: ... continue
RowSkipped(row) == Len(row) # LookupFields

\* (port, protocol.lower())
LookupKey(row) == <<row[1], lower(row[2])>>

\* lookup_data.setdefault((port, protocol.lower()), tag)
StoreTagIfNew(data, row) == DictSetFirstWins(data, <<row[1], lower(row[2])>>, row[3])

\* lookup_data[(port, protocol.lower())] = tag
StoreTag(data, row) == DictSet(data, LookupKey(row), row[3])

\* one turn of: for row_number, row in enumerate(reader, 2).
\* port, protocol, tag = row raises ValueError unless the row has three fields.
read_lookup_table_row ==
    /\ pc = "lookup_rows"
    /\ row_number < Len(lookupFile.rows)
    /\ row_number' = row_number + 1
    /\ LET row == lookupFile.rows[row_number + 1] IN
         IF RowSkipped(row)
         THEN UNCHANGED <<lookup_data, pc, exitCode>>
         ELSE IF Len(row) # 3
              THEN LookupFatal("process_flow_logs") /\ UNCHANGED lookup_data
              ELSE /\ lookup_data' = StoreTag(lookup_data, row)
                   /\ UNCHANGED <<pc, exitCode>>
    /\ UNCHANGED <<called, lookupFile, flowFile, line_number, required_flow_data,
                   matched, tag_count, portprotocol_count, output, outputPath, normVars>>

\* the reader is exhausted (return lookup_data) or raises
read_lookup_table_return ==
    /\ pc = "lookup_rows"
    /\ row_number = Len(lookupFile.rows)
    /\ IF lookupFile.error = "none"
       THEN pc' = "process_flow_logs" /\ UNCHANGED exitCode
       ELSE LookupFatal("process_flow_logs")
    /\ UNCHANGED <<called, lookupFile, row_number, lookup_data, flowFile, line_number,
                   required_flow_data, matched, tag_count, portprotocol_count,
                   output, outputPath, normVars>>

\* with open(self.flow_logs_path, 'r'), the path holding one of files
OpenFlowLog(files) ==
    /\ pc = "process_flow_logs"
    /\ called' = called \cup {"process_flow_logs"}
    /\ \E f \in files :
         /\ flowFile' = f
         /\ IF f.status = "ok"
            THEN pc' = "flow_lines" /\ UNCHANGED exitCode
            ELSE FlowFatal("match_flowdata_tags")
    /\ UNCHANGED <<lookupFile, row_number, lookup_data, line_number, required_flow_data,
                   matched, tag_count, portprotocol_count, output, outputPath, normVars>>

process_flow_logs_open == OpenFlowLog(FlowFiles)

\* if len(fields) < 8: ... continue
LineSkipped(fields) == Len(fields) < MinFields

\* (fields[5], fields[6])
FlowRecordShifted(fields) == <<fields[6], fields[7]>>

\* (fields[6], fields[7]), Python's indexes from 0
FlowRecord(fields) == <<fields[7], fields[8]>>

\* one turn of: for line_number, line in enumerate(file, 1)
process_flow_logs_line ==
    /\ pc = "flow_lines"
    /\ line_number < Len(flowFile.lines)
    /\ line_number' = line_number + 1
    /\ LET fields == split(strip(flowFile.lines[line_number + 1])) IN
         IF LineSkipped(fields) \/ Len(fields) < 8     \* the second: except IndexError
         THEN UNCHANGED required_flow_data
         ELSE required_flow_data' = Append(required_flow_data, FlowRecord(fields))
    /\ UNCHANGED <<pc, called, lookupFile, row_number, lookup_data, flowFile, matched,
                   tag_count, portprotocol_count, output, outputPath, exitCode, normVars>>

\* the file is exhausted (return required_flow_data) or reading it raises
process_flow_logs_return ==
    /\ pc = "flow_lines"
    /\ line_number = Len(flowFile.lines)
    /\ IF flowFile.error = "none"
       THEN pc' = "match_flowdata_tags" /\ UNCHANGED exitCode
       ELSE FlowFatal("match_flowdata_tags")
    /\ UNCHANGED <<called, lookupFile, row_number, lookup_data, flowFile, line_number,
                   required_flow_data, matched, tag_count, portprotocol_count,
                   output, outputPath, normVars>>

\* protocol_num.lower()
ProtocolNameUnmapped(protocol_num) == lower(protocol_num)

\* PROTOCOL_MAP.get(protocol_num, protocol_num)
ProtocolNameAsWritten(protocol_num) == DictGet(PROTOCOL_MAP, protocol_num, protocol_num)

\* PROTOCOL_MAP.get(protocol_num, protocol_num).lower()
ProtocolName(protocol_num) == lower(DictGet(PROTOCOL_MAP, protocol_num, protocol_num))

\* key = (dst_port, protocol_name)
FlowKey(record) == <<record[1], ProtocolName(record[2])>>

\* lookup_table.get(key) or the port's first tag
TagOfPort(lookup_table, key) ==
    IF \E i \in 1..Len(lookup_table) : lookup_table[i][1][1] = key[1]
    THEN lookup_table[CHOOSE i \in 1..Len(lookup_table) : lookup_table[i][1][1] = key[1]][2]
    ELSE Untagged

\* lookup_table.get(key, "Untagged")
TagOf(lookup_table, key) == DictGet(lookup_table, key, Untagged)

\* the tagged records only
CountTagged(counts, tag) ==
    IF tag = Untagged THEN counts ELSE DictSet(counts, tag, DictGet(counts, tag, 0) + 1)

\* counts[k] = counts.get(k, 0) + 1
Count(counts, k) == DictSet(counts, k, DictGet(counts, k, 0) + 1)

\* one turn of: for dst_port, protocol_num in flow_data
match_flowdata_tags_record ==
    /\ pc = "match_flowdata_tags"
    /\ matched < Len(required_flow_data)
    /\ called' = called \cup {"match_flowdata_tags"}
    /\ matched' = matched + 1
    /\ LET key == FlowKey(required_flow_data[matched + 1]) IN
         /\ portprotocol_count' = DictSet(portprotocol_count, key,
                                          DictGet(portprotocol_count, key, 0) + 1)
         /\ tag_count' = Count(tag_count, TagOf(lookup_data, key))
    /\ UNCHANGED <<pc, lookupFile, row_number, lookup_data, flowFile, line_number,
                   required_flow_data, output, outputPath, exitCode, normVars>>

\* return tag_count, portprotocol_count
match_flowdata_tags_return ==
    /\ pc = "match_flowdata_tags"
    /\ matched = Len(required_flow_data)
    /\ called' = called \cup {"match_flowdata_tags"}
    /\ pc' = "write_results_to_csv"
    /\ UNCHANGED <<lookupFile, row_number, lookup_data, flowFile, line_number,
                   required_flow_data, matched, tag_count, portprotocol_count,
                   output, outputPath, exitCode, normVars>>

\* the rows handed to writer.writerow, in order
OutputRows(tag_counts, portprotocol_counts) ==
    << <<TagCountsTitle>>, <<TagColumn, CountColumn>> >>
    \o [i \in 1..Len(tag_counts) |-> <<tag_counts[i][1], str(tag_counts[i][2])>>]
    \o << <<>> >>
    \o << <<PortProtocolTitle>>, <<PortColumn, ProtocolColumn, CountColumn>> >>
    \o [i \in 1..Len(portprotocol_counts) |->
          <<portprotocol_counts[i][1][1], portprotocol_counts[i][1][2],
            str(portprotocol_counts[i][2])>>]

\* write_results_to_csv, then generate_output's last line or its except clause.
\* outputPath records what the path allowed; of a write that failed midway only
\* the truncation is kept (complete = FALSE), not the rows that reached the file.
write_results_to_csv ==
    /\ pc = "write_results_to_csv"
    /\ called' = called \cup {"write_results_to_csv"}
    /\ \/ /\ outputPath' = "writable"
          /\ output' = [written |-> TRUE, complete |-> TRUE,
                        rows |-> OutputRows(tag_count, portprotocol_count)]
          /\ pc' = "done"
          /\ exitCode' = 0
       \/ /\ outputPath' = "open_fails"      \* create_directory or open raises
          /\ UNCHANGED output
          /\ sys_exit
       \/ /\ outputPath' = "write_fails"     \* a writerow or the close raises
          /\ output' = [written |-> TRUE, complete |-> FALSE, rows |-> <<>>]
          /\ sys_exit
    /\ UNCHANGED <<lookupFile, row_number, lookup_data, flowFile, line_number,
                   required_flow_data, matched, tag_count, portprotocol_count, normVars>>

Next ==
    \/ read_lookup_table_open
    \/ read_lookup_table_header
    \/ read_lookup_table_row
    \/ read_lookup_table_return
    \/ process_flow_logs_open
    \/ process_flow_logs_line
    \/ process_flow_logs_return
    \/ match_flowdata_tags_record
    \/ match_flowdata_tags_return
    \/ write_results_to_csv

Spec == Init /\ [][Next]_vars

(***************************************************************************)
(* Termination: the same run with weak fairness, its two inputs drawn from *)
(* files of one valid and one short row, and one valid and one short line. *)
(* The run is single-threaded and synchronous: a step that can be taken is *)
(* taken.                                                                  *)
(***************************************************************************)
FewRows == { <<P25, Tcp, Email>>, <<P25, Udp>> }

FewLines == {
    <<"a"," ","a"," ","a"," ","a"," ","a"," ","a"," ","2","5"," ","6","\n">>,
    <<"a"," ","a"," ","a"," ","a"," ","a"," ","a"," ","2","5","\n">> }

read_lookup_table_open_few == OpenLookupTable(LookupFilesOf(FewRows))

process_flow_logs_open_few == OpenFlowLog(FlowFilesOf(FewLines))

FairNext ==
    \/ read_lookup_table_open_few
    \/ read_lookup_table_header
    \/ read_lookup_table_row
    \/ read_lookup_table_return
    \/ process_flow_logs_open_few
    \/ process_flow_logs_line
    \/ process_flow_logs_return
    \/ match_flowdata_tags_record
    \/ match_flowdata_tags_return
    \/ write_results_to_csv

FairSpec == Init /\ [][FairNext]_vars /\ WF_vars(FairNext)

(***************************************************************************)
(* Protocol normalisation alone: ProtocolName applied to a token, to its   *)
(* own result, and to a token that differs in letter case only.            *)
(***************************************************************************)
TokenChars == {"1", "6", "7", "t", "T", "c", "C", "p", "P"}

Tokens == UNION {[1..k -> TokenChars] : k \in 1..MaxTokenLen}

SwapCase(c) ==
    IF \E i \in 1..Len(UpperChars) : UpperChars[i] = c
    THEN LowerChars[CHOOSE i \in 1..Len(UpperChars) : UpperChars[i] = c]
    ELSE IF \E i \in 1..Len(LowerChars) : LowerChars[i] = c
         THEN UpperChars[CHOOSE i \in 1..Len(LowerChars) : LowerChars[i] = c]
         ELSE c

\* the tokens that differ from s in the case of some of its letters
CaseVariants(s) ==
    { [i \in 1..Len(s) |-> IF flip[i] THEN SwapCase(s[i]) ELSE s[i]] :
        flip \in [1..Len(s) -> BOOLEAN] }

NormInit ==
    /\ pc = "normalize"
    /\ called = {}
    /\ lookupFile = Unopened
    /\ row_number = 0
    /\ lookup_data = <<>>
    /\ flowFile = Unopened
    /\ line_number = 0
    /\ required_flow_data = <<>>
    /\ matched = 0
    /\ tag_count = <<>>
    /\ portprotocol_count = <<>>
    /\ output = [written |-> FALSE, complete |-> FALSE, rows |-> <<>>]
    /\ outputPath = "untried"
    /\ exitCode = -1
    /\ token \in Tokens
    /\ variant \in CaseVariants(token)
    /\ name_once = <<>>
    /\ name_twice = <<>>
    /\ name_variant = <<>>

normalize_token ==
    /\ pc = "normalize"
    /\ name_once' = ProtocolName(token)
    /\ pc' = "normalize_again"
    /\ UNCHANGED <<called, lookupFile, row_number, lookup_data, flowFile, line_number,
                   required_flow_data, matched, tag_count, portprotocol_count, output,
                   outputPath, exitCode, token, variant, name_twice, name_variant>>

normalize_again ==
    /\ pc = "normalize_again"
    /\ name_twice' = ProtocolName(name_once)
    /\ pc' = "normalize_variant"
    /\ UNCHANGED <<called, lookupFile, row_number, lookup_data, flowFile, line_number,
                   required_flow_data, matched, tag_count, portprotocol_count, output,
                   outputPath, exitCode, token, variant, name_once, name_variant>>

normalize_variant ==
    /\ pc = "normalize_variant"
    /\ name_variant' = ProtocolName(variant)
    /\ pc' = "normalized"
    /\ UNCHANGED <<called, lookupFile, row_number, lookup_data, flowFile, line_number,
                   required_flow_data, matched, tag_count, portprotocol_count, output,
                   outputPath, exitCode, token, variant, name_once, name_twice>>

NormNext == normalize_token \/ normalize_again \/ normalize_variant

NormSpec == NormInit /\ [][NormNext]_vars

(***************************************************************************)
(* What the claims speak of, stated apart from the code above.             *)
(***************************************************************************)
NonSpaceAt(s, i) == i \in 1..Len(s) /\ s[i] \notin {" ", "\t", "\n", "\r", "\f"}

\* where the maximal runs of non-whitespace of s begin
FieldStarts(s) == {i \in 1..Len(s) : NonSpaceAt(s, i) /\ ~NonSpaceAt(s, i - 1)}

FieldCount(s) == Cardinality(FieldStarts(s))

\* the k-th whitespace-separated field of s, counted from 1
Field(s, k) ==
    LET starts == FieldStarts(s)
        b == CHOOSE i \in starts : Cardinality({j \in starts : j <= i}) = k
        e == CHOOSE j \in b..Len(s) :
                 ~NonSpaceAt(s, j + 1) /\ \A x \in b..j : NonSpaceAt(s, x)
    IN SubSeq(s, b, e)

\* the lines among the first n that have at least 8 fields, in file order
LongLines(lines, n) == SelectSeq(SubSeq(lines, 1, n), LAMBDA l : FieldCount(l) >= 8)

\* a numeric code stands for its name; any other token for itself, lowercased
NormalizedName(t) ==
    CASE t = <<"6">> -> <<"t","c","p">>
      [] t = <<"1","7">> -> <<"u","d","p">>
      [] t = <<"1">> -> <<"i","c","m","p">>
      [] OTHER -> lower(t)

RecordKey(record) == <<record[1], NormalizedName(record[2])>>

LookupReadable ==
    lookupFile.status = "ok" /\ lookupFile.error = "none" /\ lookupFile.rows # <<>>

LookupUnreadable == lookupFile.status # "unopened" /\ ~LookupReadable

FlowReadable == flowFile.status = "ok" /\ flowFile.error = "none"

FlowUnreadable == flowFile.status # "unopened" /\ ~FlowReadable

Terminated == pc \in {"done", "exited"}

\* list(d.keys())
DictKeys(d) == [i \in 1..Len(d) |-> d[i][1]]

RECURSIVE DictSum(_)
\* sum(d.values())
DictSum(d) == IF d = <<>> THEN 0 ELSE d[1][2] + DictSum(Tail(d))

\* the keys of a dict as a set, and the count a dict gives a key (0 when absent)
KeySet(d) == {d[i][1] : i \in 1..Len(d)}

ValueOf(d, k, absent) ==
    IF k \in KeySet(d) THEN d[CHOOSE i \in 1..Len(d) : d[i][1] = k][2] ELSE absent

CountOf(d, k) == ValueOf(d, k, 0)

\* the records aggregation has processed, and the key of the j-th
Processed == 1..matched

KeyOfRecord(j) == RecordKey(required_flow_data[j])

\* the rows after the header, among the first n, that have exactly 3 fields
ValidRows(n) == {i \in 2..n : Len(lookupFile.rows[i]) = 3}

RowKey(i) == <<lookupFile.rows[i][1], lower(lookupFile.rows[i][2])>>

RowsFor(k, n) == {i \in ValidRows(n) : RowKey(i) = k}

LastOf(S) == CHOOSE i \in S : \A j \in S : j <= i

\* the tag the file gives key k: that of the last valid row with the key
FileTag(k) ==
    LET S == RowsFor(k, row_number)
    IN IF S = {} THEN Untagged ELSE lookupFile.rows[LastOf(S)][3]

NumericCodes == {<<"6">>, <<"1","7">>, <<"1">>}

\* the same, the rows written with a numeric protocol left out
NameFormTag(k) ==
    LET S == {i \in RowsFor(k, row_number) : lookupFile.rows[i][2] \notin NumericCodes}
    IN IF S = {} THEN Untagged ELSE lookupFile.rows[LastOf(S)][3]

RECURSIVE FirstSeen(_)
\* a sequence without the later occurrences of its elements
FirstSeen(seq) ==
    IF seq = <<>> THEN <<>>
    ELSE LET front == FirstSeen(SubSeq(seq, 1, Len(seq) - 1))
             last == seq[Len(seq)]
         IN IF \E i \in 1..Len(front) : front[i] = last THEN front ELSE Append(front, last)

\* every entry of d is in e unchanged, but one that is 1 higher (or new, at 1)
OneEntryPlusOne(d, e) ==
    \E k \in KeySet(e) :
        /\ CountOf(e, k) = CountOf(d, k) + 1
        /\ \A j \in (KeySet(d) \cup KeySet(e)) \ {k} : j \in KeySet(d) /\ CountOf(e, j) = CountOf(d, j)

C1_SumsAfterEachRecord ==
    /\ DictSum(tag_count) = matched
    /\ DictSum(portprotocol_count) = matched
    /\ \A i \in 1..Len(tag_count) : tag_count[i][2] >= 1
    /\ \A i \in 1..Len(portprotocol_count) : portprotocol_count[i][2] >= 1
    /\ pc \in {"write_results_to_csv", "done"} =>
          matched = Cardinality({i \in 1..Len(flowFile.lines) : FieldCount(flowFile.lines[i]) >= 8})

C1_OneIncrementPerRecord ==
    matched' # matched =>
        /\ matched' = matched + 1
        /\ OneEntryPlusOne(tag_count, tag_count')
        /\ OneEntryPlusOne(portprotocol_count, portprotocol_count')

\* C1: every processed record adds exactly 1 to exactly one entry of TagCounts
\* and of PortProtocolCounts, so after every record both sums equal the number
\* of records processed, and once aggregation is over both equal the number of
\* flow-log lines with at least 8 whitespace-separated fields.
C1_CountsSumToRecords == []C1_SumsAfterEachRecord /\ [][C1_OneIncrementPerRecord]_vars

C1_Witness ==
    /\ pc = "done"
    /\ matched = 2
    /\ Len(flowFile.lines) = 3
    /\ Len(tag_count) = 2

\* C5: process_flow_logs returns one (field 7, field 8) pair for each line
\* with at least 8 whitespace-separated fields, nothing for a shorter line,
\* in the order of the lines.
C5_RecordsOfLongLines ==
    /\ flowFile.status = "ok" =>
          LET long == LongLines(flowFile.lines, line_number) IN
            required_flow_data = [i \in 1..Len(long) |-> <<Field(long[i], 7), Field(long[i], 8)>>]
    /\ (flowFile.status = "ok" /\ pc \in {"match_flowdata_tags", "write_results_to_csv", "done"})
          => line_number = Len(flowFile.lines)

C5_Witness ==
    /\ pc = "match_flowdata_tags"
    /\ Len(flowFile.lines) = 3
    /\ Len(required_flow_data) = 2
    /\ required_flow_data[1] # required_flow_data[2]
    /\ FieldCount(flowFile.lines[2]) < 8

\* C6: protocol normalisation is idempotent, and tokens that differ only in
\* letter case normalise to the same name; the flow tokens "6" and "TCP" and a
\* lookup row's protocol "tcp" or "TCP" all give the key component "tcp".
C6_NormalizeIdempotentAnyCase ==
    /\ pc \in {"normalize_variant", "normalized"} => name_twice = name_once
    /\ pc = "normalized" => name_variant = name_once
    /\ (pc # "normalize" /\ token \in {<<"6">>, <<"T","C","P">>, <<"t","c","p">>}) =>
          /\ name_once = <<"t","c","p">>
          /\ \A r \in {<<"t","c","p">>, <<"T","C","P">>} :
                LookupKey(<<P25, r, Email>>) = <<P25, name_once>>

C6_Witness ==
    /\ pc = "normalized"
    /\ token = <<"T","C","P">>
    /\ variant = <<"t","C","p">>
    /\ name_variant = <<"t","c","p">>

\* C2: a record whose key is absent from the lookup table is counted under
\* "Untagged" and under no other tag; a record whose key is present is counted
\* under the tag the table maps its key to and under no other tag.
C2_TagsFollowLookup ==
    LET tagOf(j) == ValueOf(lookup_data, KeyOfRecord(j), Untagged)
    IN \A t \in KeySet(tag_count) \cup {tagOf(j) : j \in Processed} :
          CountOf(tag_count, t) = Cardinality({j \in Processed : tagOf(j) = t})

C2_Witness ==
    /\ pc = "done"
    /\ matched = 2
    /\ KeyOfRecord(1) \notin KeySet(lookup_data)
    /\ KeyOfRecord(2) \in KeySet(lookup_data)
    /\ tag_count = << <<Untagged, 1>>, <<Email, 1>> >>

\* the reader (or the file) has nothing left to yield and raises next
LookupRaisesNext ==
    pc \in {"lookup_header", "lookup_rows"} /\ LookupUnreadable
       /\ row_number = Len(lookupFile.rows)

FlowRaisesNext ==
    pc = "flow_lines" /\ FlowUnreadable /\ line_number = Len(flowFile.lines)

C3_NothingAfterFatalRead ==
    /\ LookupUnreadable =>
          /\ pc \in {"lookup_header", "lookup_rows", "exited"}
          /\ called = {"read_lookup_table"}
          /\ flowFile = Unopened
          /\ required_flow_data = <<>>
    /\ FlowUnreadable =>
          /\ pc \in {"flow_lines", "exited"}
          /\ called = {"read_lookup_table", "process_flow_logs"}
    /\ (LookupUnreadable \/ FlowUnreadable) =>
          /\ matched = 0 /\ tag_count = <<>> /\ portprotocol_count = <<>>
          /\ ~output.written /\ outputPath = "untried"
          /\ pc = "exited" => exitCode = 1
    /\ (LookupRaisesNext \/ FlowRaisesNext) => ENABLED Next

\* the step at which open() or the reader raises is the step that exits,
\* and no step follows the exit
C3_RaiseExits ==
    /\ pc # "exited"
    /\ ( \/ pc = "read_lookup_table" /\ lookupFile'.status # "ok"
         \/ LookupRaisesNext
         \/ pc = "process_flow_logs" /\ flowFile'.status # "ok"
         \/ FlowRaisesNext )
       => pc' = "exited" /\ exitCode' = 1

\* C3: a fatal error while reading the lookup table or the flow log ends the
\* run at once with exit status 1: no later stage is entered (after a lookup
\* failure the flow log is never opened), nothing is aggregated, and the
\* output file is neither created nor overwritten.
C3_FatalReadAborts == []C3_NothingAfterFatalRead /\ [][C3_RaiseExits]_vars

C3_Witness ==
    /\ pc = "exited"
    /\ lookupFile.status = "ok"
    /\ lookupFile.error = "csv"
    /\ row_number = 3
    /\ lookup_data # <<>>

OutputHasBothSections ==
    LET r == output.rows
        t == Len(tag_count)
    IN /\ output.written /\ output.complete
       /\ Len(r) = 5 + t + Len(portprotocol_count)
       /\ r[1] = <<TagCountsTitle>>
       /\ r[2] = <<TagColumn, CountColumn>>
       /\ r[3 + t] = <<>>
       /\ r[4 + t] = <<PortProtocolTitle>>
       /\ r[5 + t] = <<PortColumn, ProtocolColumn, CountColumn>>

C4_EndsWellWhenReadable ==
    (Terminated /\ ~LookupUnreadable /\ ~FlowUnreadable
        /\ outputPath \notin {"open_fails", "write_fails"}) =>
       /\ pc = "done"
       /\ exitCode = 0
       /\ OutputHasBothSections
       /\ LongLines(flowFile.lines, Len(flowFile.lines)) = <<>> => Len(output.rows) = 5

\* C4: with both inputs readable, a header row in the lookup table and a
\* writable output path, the run ends with exit status 0 and the output file
\* holds both section titles and both column-header lines, however many lines
\* and rows were skipped; with no valid record both data sections are empty.
C4_TerminatesWithOutput == <>Terminated /\ []C4_EndsWellWhenReadable

C4_Witness ==
    /\ pc = "done"
    /\ exitCode = 0
    /\ Len(lookupFile.rows) = 3
    /\ Len(lookupFile.rows[2]) = 2
    /\ Len(flowFile.lines) = 2
    /\ required_flow_data = <<>>
    /\ Len(output.rows) = 5

\* C7: neither the header row, whatever it holds, nor a row whose field count
\* is not 3 puts an entry into the lookup mapping; reading goes on with the
\* rows that follow, and a record whose key only such rows carry is counted
\* as "Untagged".
C7_OnlyValidRowsMap ==
    lookupFile.status = "ok" =>
       /\ KeySet(lookup_data) = {RowKey(i) : i \in ValidRows(row_number)}
       /\ LookupReadable =>
             /\ ~(pc = "exited" /\ called = {"read_lookup_table"})
             /\ pc \notin {"lookup_header", "lookup_rows"} => row_number = Len(lookupFile.rows)
       /\ CountOf(tag_count, Untagged) >=
             Cardinality({j \in Processed : RowsFor(KeyOfRecord(j), row_number) = {}})

C7_Witness ==
    /\ pc = "done"
    /\ lookupFile.rows = << <<P25, Udp, Hdr>>, <<P25, Udp>>, <<P25, Tcp, Email>> >>
    /\ \E j \in Processed : KeyOfRecord(j) = <<P25, Udp>>
    /\ tag_count = << <<Untagged, 1>>, <<Email, 1>> >>

\* C8: when several 3-field rows have the same key (port verbatim, protocol
\* lowercased), the mapping holds the tag of the last of them in file order,
\* and every record with that key is counted under that tag only.
C8_LastRowWins ==
    lookupFile.status = "ok" =>
       /\ \A i \in 1..Len(lookup_data) : lookup_data[i][2] = FileTag(lookup_data[i][1])
       /\ \A t \in KeySet(tag_count) \cup {FileTag(KeyOfRecord(j)) : j \in Processed} :
             CountOf(tag_count, t) = Cardinality({j \in Processed : FileTag(KeyOfRecord(j)) = t})

C8_Witness ==
    /\ pc = "done"
    /\ lookupFile.rows = << <<P25, Udp, Hdr>>, <<P25, Tcp, Email>>, <<P25, TCP, Web>> >>
    /\ tag_count = << <<Web, 2>> >>

C9_FirstSeenOrder ==
    /\ DictKeys(tag_count) =
          FirstSeen([j \in Processed |-> ValueOf(lookup_data, KeyOfRecord(j), Untagged)])
    /\ DictKeys(portprotocol_count) = FirstSeen([j \in Processed |-> KeyOfRecord(j)])
    /\ output.complete =>
          LET r == output.rows
              t == Len(tag_count)
              p == Len(portprotocol_count)
          IN /\ Len(r) = 5 + t + p
             /\ \A i \in 1..t : r[2 + i] = <<tag_count[i][1], str(tag_count[i][2])>>
             /\ r[3 + t] = <<>>
             /\ \A i \in 1..p :
                   r[5 + t + i] = <<portprotocol_count[i][1][1], portprotocol_count[i][1][2],
                                    str(portprotocol_count[i][2])>>

C9_EntriesStay ==
    /\ \A i \in 1..Len(tag_count) :
          i <= Len(tag_count') /\ tag_count'[i][1] = tag_count[i][1]
    /\ \A i \in 1..Len(portprotocol_count) :
          i <= Len(portprotocol_count') /\ portprotocol_count'[i][1] = portprotocol_count[i][1]

\* C9: TagCounts and PortProtocolCounts keep their entries in first-seen order
\* over the records, a later increment never moves an entry, and the output
\* holds the lines of each section in that order, the tag section before the
\* blank line and the port/protocol section after it.
C9_InsertionOrderKept == []C9_FirstSeenOrder /\ [][C9_EntriesStay]_vars

C9_Witness ==
    /\ pc = "done"
    /\ matched = 3
    /\ KeyOfRecord(1) = KeyOfRecord(3)
    /\ portprotocol_count = << <<<<P25, Tcp>>, 2>>, <<<<P25, Udp>>, 1>> >>
    /\ tag_count = << <<Email, 2>>, <<Untagged, 1>> >>
    /\ Len(output.rows) = 9

\* C10: no record gets a key whose protocol is "6", "17" or "1", and a lookup
\* row written with one of these never tags a record: each record is counted
\* under the tag of the last valid name-form row with its key, else "Untagged".
C10_NumericRowsNeverTag ==
    /\ \A i \in 1..Len(portprotocol_count) : portprotocol_count[i][1][2] \notin NumericCodes
    /\ lookupFile.status = "ok" =>
          \A t \in KeySet(tag_count) \cup {NameFormTag(KeyOfRecord(j)) : j \in Processed} :
             CountOf(tag_count, t) =
                Cardinality({j \in Processed : NameFormTag(KeyOfRecord(j)) = t})

C10_Witness ==
    /\ pc = "done"
    /\ <<P25, S6>> \in KeySet(lookup_data)
    /\ <<P25, Tcp>> \notin KeySet(lookup_data)
    /\ \E j \in Processed : required_flow_data[j] = <<P25, S6>>
    /\ tag_count = << <<Untagged, 1>> >>

====
